---- MODULE Spec2Model ----
(***************************************************************************)
(* State-machine model of the playlist view (ViewPlaylist) and of the      *)
(* embedded player (EmbeddedPlayer) of src/components/EmbeddedPlayer.tsx.  *)
(*                                                                         *)
(* One mounted ViewPlaylist is modelled together with its environment: the *)
(* authentication session, the local store entry of the routed playlist    *)
(* and the remote tables (playlists row, reels, playlist_tags).  Handlers  *)
(* that await a remote call are split at the await: the start step         *)
(* captures the handler's closure (playlist, currentReelIndex, ...), the   *)
(* completion step applies the backend effect and runs the continuation.   *)
(* React state updates made in one synchronous run are batched into one    *)
(* step; passive effects (useEffect) run as a step of their own right      *)
(* after the render that scheduled them.                                   *)
(***************************************************************************)
EXTENDS Integers, Sequences, FiniteSets, TLC

(* ------------------------------ bounds --------------------------------- *)
\* number of reels added in one run (fresh identifiers)
MaxAdds == 1
\* number of remote mutations in flight at the same time
MaxInFlight == 1

(* ------------------------------ values --------------------------------- *)
NullUser == "null"
UserA == "user-a"
NullError == "null"

SupportedPlatforms == {"youtube", "instagram", "tiktok", "facebook", "twitter"}

Tags == {"t1"}

\* a reel object; videoId 0 stands for null; obj tells the JavaScript objects
\* of two loads apart
Reel(id, platform, videoId, obj) ==
    [id |-> id, platform |-> platform, videoId |-> videoId, obj |-> obj]

\* updatedAt: the time the stored playlist was written at, or the time of a
\* new Date() of this run
Stored == "stored"
Now == "now"

NullPlaylist == [present |-> FALSE, reels |-> <<>>, tags |-> {}, updatedAt |-> Stored]

Playlist(reels, tags, updatedAt) ==
    [present |-> TRUE, reels |-> reels, tags |-> tags, updatedAt |-> updatedAt]

\* the texts a user can type into the "Add new reel URL" input
Urls == {"", "   ", "https://twitter.com/u/status/9", "https://example.com/clip"}

\* String.prototype.trim on the texts above
Trim(url) == IF url = "   " THEN "" ELSE url

\* lib/utils detectPlatform: the platform of a URL, "null" when unrecognized
detectPlatform(url) ==
    IF url = "https://twitter.com/u/status/9" THEN "twitter" ELSE "null"

\* lib/utils extractVideoId: 0 (null) for twitter
extractVideoId(url, platform) == 0

(* --------------------------- sample data ------------------------------- *)
SampleReels(obj) ==
    << Reel(1, "youtube", 1, obj), Reel(2, "instagram", 2, obj),
       Reel(3, "twitter", 0, obj) >>

Prefix(s, n) == SubSeq(s, 1, n)

\* a stored reel whose platform string is none of the five the player knows
\* (the stored value is used as it is read)
OtherReel(obj) == Reel(9, "vimeo", 9, obj)

NoRows == [exists |-> FALSE, reels |-> <<>>, tags |-> {}]

\* the environments a view is mounted in: whether a session exists, what the
\* local store holds for the routed playlist id and what the remote tables hold
Scenarios ==
    { [session |-> FALSE, store |-> st, rows |-> NoRows] :
        st \in {NullPlaylist} \cup
               { Playlist(Prefix(SampleReels("local"), n), {}, Stored) : n \in {0, 2, 3} } \cup
               { Playlist(Prefix(SampleReels("local"), 1) \o << OtherReel("local") >>,
                          {}, Stored) } }
    \cup
    { [session |-> TRUE, store |-> st, rows |-> rows] :
        st \in {NullPlaylist, Playlist(Prefix(SampleReels("local"), 2), {}, Stored)},
        rows \in {NoRows} \cup
                 { [exists |-> TRUE, reels |-> Prefix(SampleReels("row"), n),
                    tags |-> {"t1"}] : n \in {1, 2} } }

\* the environments the handlers are called directly in
CallScenarios ==
    { sc \in Scenarios : /\ sc.store.present /\ Len(sc.store.reels) <= 2
                         /\ sc.session => Len(sc.rows.reels) = 1 }

VARIABLES
    \* environment
    session,          \* an authenticated session exists (supabase.auth)
    localStore,       \* the local store's entry for the routed playlist id
    db,               \* remote rows of the routed playlist
    nextId,           \* uuidv4() / the database's id generator
    harness,          \* handlers are also called directly, whatever their controls' state
    \* ViewPlaylist
    view,             \* "init" | "mounted" | "left" (navigated away)
    playlist, currentReelIndex, isPlaying, userId, isLoading,
    selectedTags, checkUserPending, \* checkUser awaits getSession
    fetch,            \* fetchPlaylist: its awaited step and what it read so far
    ops,              \* addReel / removeReel / updatePlaylistTags awaiting the backend
    isCopied,         \* the share button shows the "copied" mark
    uncaught,         \* a promise of the view was rejected and no handler caught it
    toast,            \* the notification of the last step: <<kind, message>>
    called,           \* history: the handler the last step called, with its input
    lastAdd,          \* history: the reel added last and the state its addReel started from
    \* EmbeddedPlayer
    player

vars == << session, localStore, db, nextId, harness, uncaught, isCopied, view, playlist,
           currentReelIndex, isPlaying, userId, isLoading,
           selectedTags, checkUserPending, fetch, ops, toast,
           called, lastAdd, player >>

envVars == << session, harness >>

(* ------------------------------ helpers -------------------------------- *)
RemoveAt(s, i) == SubSeq(s, 1, i - 1) \o SubSeq(s, i + 1, Len(s))

\* a filter that drops the first reel, whatever its id
FilterOutHead(reels, reelId) == IF reels = <<>> THEN <<>> ELSE Tail(reels)

\* Array.prototype.filter(reel => reel.id !== reelId)
RECURSIVE FilterOut(_, _)
FilterOut(reels, reelId) ==
    IF reels = <<>> THEN <<>>
    ELSE IF Head(reels).id = reelId THEN FilterOut(Tail(reels), reelId)
    ELSE <<Head(reels)>> \o FilterOut(Tail(reels), reelId)

ReelIds(reels) == { reels[i].id : i \in 1..Len(reels) }

Max(a, b) == IF a >= b THEN a ELSE b

\* playlist.reels[currentReelIndex]: <<reel>>, or <<>> for undefined
CurrentReel(pl, idx) ==
    IF pl.present /\ idx + 1 \in 1..Len(pl.reels) THEN << pl.reels[idx + 1] >> ELSE <<>>

\* a call of a handler with its input (the typed URL or the reel id)
Call(handler, url, reelId) == [handler |-> handler, url |-> url, reelId |-> reelId]

NoCall == Call("none", "", 0)

\* toast.error / toast.success; toast holds what the last step notified
NotifyBy(kind, msg, call) == toast' = << kind, msg >> /\ called' = call

Notify(kind, msg) == NotifyBy(kind, msg, NoCall)

\* the step notifies nothing
QuietBy(call) == toast' = << "none", "" >> /\ called' = call

Quiet == QuietBy(NoCall)

\* lib/utils getPlaylistsFromStorage().find(p => p.id === id): the local store
\* is read as a whole; its entry for the routed playlist id
getPlaylistsFromStorage == localStore

\* lib/utils savePlaylistsToStorage: the local store is written as a whole and
\* then holds, for the routed playlist id, the entry it was given
savePlaylistsToStorage(entry) == entry

NoFetch == [stage |-> "none", reels |-> <<>>]

NoAdd == [id |-> 0, pl |-> NullPlaylist, store |-> NullPlaylist]


(* --------------------------- EmbeddedPlayer ----------------------------- *)
\* useState initial values of EmbeddedPlayer; dep is the reel the effect last ran for
FreshPlayer(mounted) ==
    [mounted |-> mounted, embedUrl |-> <<>>, error |-> NullError,
     showFallback |-> FALSE, dep |-> <<>>]

\* the embed target templates; <<>> stands for null
EmbedUrl(reel, playing) ==
    CASE reel.platform = "youtube" ->
           IF reel.videoId # 0
           THEN << "youtube", reel.videoId, IF playing THEN 1 ELSE 0 >> ELSE <<>>
      [] reel.platform \in {"instagram", "tiktok", "facebook"} ->
           IF reel.videoId # 0 THEN << reel.platform, reel.videoId >> ELSE <<>>
      [] OTHER -> <<>>

\* generateEmbedUrl with the props of the current render
generateEmbedUrl(p, reel, playing) ==
    IF reel.platform \in SupportedPlatforms
    THEN [p EXCEPT !.error = NullError,
                   !.showFallback = (reel.platform = "twitter"),
                   !.embedUrl = EmbedUrl(reel, playing)]
    ELSE [p EXCEPT !.error = "Unsupported platform", !.showFallback = FALSE]

\* what EmbeddedPlayer returns: the error card, the fallback card or the iframe
Rendered(p) ==
    IF p.error # NullError /\ ~p.showFallback THEN "error"
    ELSE IF p.showFallback \/ p.embedUrl = <<>> THEN "fallback"
    ELSE "iframe"

\* ViewPlaylist renders <EmbeddedPlayer reel={currentReel} .../>
PlayerShown(v, loading, pl, idx) ==
    /\ v = "mounted" /\ ~loading /\ pl.present
    /\ Len(pl.reels) # 0
    /\ CurrentReel(pl, idx) # <<>>

\* React keeps, mounts or unmounts the player after a render of the view
Reconcile ==
    player' = IF ~PlayerShown(view', isLoading', playlist', currentReelIndex')
              THEN FreshPlayer(FALSE)
              ELSE IF ~player.mounted THEN FreshPlayer(TRUE)
              ELSE player

\* the effect on [reel] is scheduled and has not run yet
EffectPending ==
    player.mounted /\ player.dep # CurrentReel(playlist, currentReelIndex)

\* useEffect(() => generateEmbedUrl(), [reel])
PlayerEffect ==
    /\ EffectPending
    /\ LET cur == CurrentReel(playlist, currentReelIndex)
       IN player' = [generateEmbedUrl(player, cur[1], isPlaying) EXCEPT !.dep = cur]
    /\ UNCHANGED lastAdd
    /\ Quiet
    /\ UNCHANGED << session, localStore, db, nextId, harness, uncaught, isCopied, view,
                    playlist, currentReelIndex, isPlaying, userId,
                    isLoading, selectedTags, checkUserPending,
                    fetch, ops >>

\* the iframe's onError
handleIframeError ==
    /\ ~EffectPending
    /\ player.mounted /\ Rendered(player) = "iframe"
    /\ player' = [player EXCEPT !.error = "Failed to load embedded content",
                                !.showFallback = TRUE]
    /\ UNCHANGED lastAdd
    /\ Quiet
    /\ UNCHANGED << session, localStore, db, nextId, harness, uncaught, isCopied, view,
                    playlist, currentReelIndex, isPlaying, userId,
                    isLoading, selectedTags, checkUserPending,
                    fetch, ops >>

(* ----------------------- mount, session, load --------------------------- *)
InitView ==
    /\ view = "init"
    /\ playlist = NullPlaylist
    /\ currentReelIndex = 0
    /\ isPlaying = FALSE
    /\ userId = NullUser
    /\ isLoading = TRUE
    /\ selectedTags = {}
    /\ checkUserPending = FALSE
    /\ isCopied = FALSE
    /\ uncaught = FALSE
    /\ fetch = NoFetch
    /\ ops = <<>>
    /\ toast = << "none", "" >>
    /\ called = NoCall
    /\ lastAdd = NoAdd
    /\ player = FreshPlayer(FALSE)

InitEnv(scenarios) ==
    /\ \E sc \in scenarios :
          /\ session = sc.session
          /\ localStore = sc.store
          /\ db = sc.rows
    /\ nextId = Len(SampleReels("row")) + 1

Init == InitEnv(Scenarios) /\ InitView /\ harness = FALSE

InitCall == InitEnv(CallScenarios) /\ InitView /\ harness = TRUE

\* the two mount effects: checkUser() is started, then the load effect runs
\* with userId still null and reads the local store
Mount ==
    /\ view = "init"
    /\ checkUserPending' = TRUE
    /\ IF getPlaylistsFromStorage.present
       THEN /\ playlist' = getPlaylistsFromStorage
            /\ selectedTags' = getPlaylistsFromStorage.tags
            /\ isLoading' = FALSE
            /\ view' = "mounted"
            /\ Quiet
       ELSE /\ Notify("error", "Playlist not found")
            /\ view' = "left"
            /\ UNCHANGED << playlist, selectedTags, isLoading >>
    /\ lastAdd' = NoAdd
    /\ UNCHANGED << session, localStore, db, nextId, harness, uncaught, isCopied,
                    currentReelIndex, isPlaying, userId,
                    fetch, ops >>
    /\ Reconcile

\* checkUser after its await; setUserId re-runs the load effect, which calls
\* fetchPlaylist(id)
CheckUserResolve ==
    /\ checkUserPending /\ ~EffectPending
    /\ checkUserPending' = FALSE
    /\ IF session /\ view = "mounted"
       THEN /\ userId' = UserA
            /\ fetch' = [stage |-> "reels", reels |-> <<>>]
       ELSE UNCHANGED << userId, fetch >>
    /\ UNCHANGED lastAdd
    /\ Quiet
    /\ UNCHANGED << session, localStore, db, nextId, harness, uncaught, isCopied, view,
                    playlist, currentReelIndex, isPlaying, isLoading,
                    selectedTags, ops, player >>

\* checkUser when getSession fails: either the promise is rejected, and
\* nothing catches it (checkUser has no try/catch and its caller does not
\* await it), or it resolves without a session and the error it returns is not
\* read; neither way notifies
CheckUserFail ==
    /\ checkUserPending /\ ~EffectPending
    /\ session
    /\ checkUserPending' = FALSE
    /\ \E rejected \in BOOLEAN : uncaught' = rejected
    /\ UNCHANGED lastAdd
    /\ Quiet
    /\ UNCHANGED << session, localStore, db, nextId, harness, isCopied, view,
                    playlist, currentReelIndex, isPlaying, userId, isLoading,
                    selectedTags, fetch, ops, player >>

\* fetchPlaylist: select from playlists ... single(), which fails without a
\* row, and select from reels; processedReels are new objects
FetchReels ==
    /\ fetch.stage = "reels" /\ ~EffectPending
    /\ db.exists
    /\ fetch' = [stage |-> "playlist_tags",
                 reels |-> [i \in 1..Len(db.reels) |->
                              [db.reels[i] EXCEPT !.obj = "fetched"]]]
    /\ UNCHANGED lastAdd
    /\ Quiet
    /\ UNCHANGED << session, localStore, db, nextId, harness, uncaught, isCopied, view,
                    playlist, currentReelIndex, isPlaying, userId,
                    isLoading, selectedTags, checkUserPending,
                    ops, player >>

\* fetchPlaylist: select from playlist_tags (and from tags when there are
\* relations), then setPlaylist(fullPlaylist), setSelectedTags, and the finally
FetchTags ==
    /\ fetch.stage = "playlist_tags" /\ ~EffectPending
    /\ fetch' = [stage |-> "done", reels |-> <<>>]
    /\ IF view = "mounted"
       THEN /\ playlist' = Playlist(fetch.reels, db.tags, Stored)
            /\ selectedTags' = db.tags
            /\ isLoading' = FALSE
       ELSE UNCHANGED << playlist, selectedTags, isLoading >>
    /\ lastAdd' = NoAdd
    /\ Quiet
    /\ UNCHANGED << session, localStore, db, nextId, harness, uncaught, isCopied, view,
                    currentReelIndex, isPlaying, userId,
                    checkUserPending, ops >>
    /\ Reconcile

\* fetchPlaylist: any select fails; catch reports and navigates away, which
\* unmounts the view and discards its state
FetchFail ==
    /\ fetch.stage \in {"reels", "playlist_tags"} /\ ~EffectPending
    /\ fetch' = [stage |-> "done", reels |-> <<>>]
    /\ Notify("error", "Failed to load playlist")
    /\ view' = "left"
    /\ playlist' = NullPlaylist
    /\ currentReelIndex' = 0
    /\ isPlaying' = FALSE
    /\ userId' = NullUser
    /\ isLoading' = TRUE
    /\ selectedTags' = {}
    /\ lastAdd' = NoAdd
    /\ isCopied' = FALSE
    /\ UNCHANGED << session, localStore, db, nextId, harness, uncaught,
                    checkUserPending, ops >>
    /\ Reconcile

(* ------------------------ rendered controls ----------------------------- *)
\* ViewPlaylist renders its content (neither the spinner nor "not found")
ViewRendered == view = "mounted" /\ ~isLoading /\ playlist.present

\* the player column and the reel list are rendered
ListRendered == ViewRendered /\ Len(playlist.reels) # 0

\* a handler can run: by its control when that is rendered and enabled, or by a
\* direct call, before the playlist is loaded or while the view renders its
\* content
Callable(control) ==
    IF harness
    THEN view = "init" \/ (ViewRendered /\ ~EffectPending)
    ELSE view = "mounted" /\ ~EffectPending /\ control

(* --------------------------- navigation --------------------------------- *)
\* onClick of a reel card
SelectReel ==
    \E index \in 0..(Len(playlist.reels) - 1) :
        /\ view = "mounted" /\ ~EffectPending /\ ListRendered
        /\ currentReelIndex' = index
        /\ isPlaying' = FALSE
        /\ UNCHANGED lastAdd
        /\ Quiet
        /\ UNCHANGED << session, localStore, db, nextId, harness, uncaught, isCopied, view,
                        playlist, userId, isLoading, selectedTags,
                        checkUserPending, fetch, ops >>
        /\ Reconcile

\* a nextReel that does not wrap
NextIndexNoWrap(pl, idx) == idx + 1

\* currentReelIndex < playlist.reels.length - 1 ? currentReelIndex + 1 : 0
NextIndex(pl, idx) == IF idx < Len(pl.reels) - 1 THEN idx + 1 ELSE 0

\* currentReelIndex > 0 ? currentReelIndex - 1 : playlist.reels.length - 1
PrevIndex(pl, idx) == IF idx > 0 THEN idx - 1 ELSE Len(pl.reels) - 1

nextReel ==
    /\ Callable(ListRendered /\ CurrentReel(playlist, currentReelIndex) # <<>>)
    /\ IF ~playlist.present \/ Len(playlist.reels) = 0
       THEN UNCHANGED << currentReelIndex, isPlaying >>
       ELSE /\ currentReelIndex' = NextIndex(playlist, currentReelIndex)
            /\ isPlaying' = FALSE
    /\ UNCHANGED lastAdd
    /\ QuietBy(Call("nextReel", "", 0))
    /\ UNCHANGED << session, localStore, db, nextId, harness, uncaught, isCopied, view,
                    playlist, userId, isLoading, selectedTags,
                    checkUserPending, fetch, ops >>
    /\ Reconcile

prevReel ==
    /\ Callable(ListRendered /\ CurrentReel(playlist, currentReelIndex) # <<>>)
    /\ IF ~playlist.present \/ Len(playlist.reels) = 0
       THEN UNCHANGED << currentReelIndex, isPlaying >>
       ELSE /\ currentReelIndex' = PrevIndex(playlist, currentReelIndex)
            /\ isPlaying' = FALSE
    /\ UNCHANGED lastAdd
    /\ QuietBy(Call("prevReel", "", 0))
    /\ UNCHANGED << session, localStore, db, nextId, harness, uncaught, isCopied, view,
                    playlist, userId, isLoading, selectedTags,
                    checkUserPending, fetch, ops >>
    /\ Reconcile

playPause ==
    /\ Callable(ListRendered /\ CurrentReel(playlist, currentReelIndex) # <<>>)
    /\ isPlaying' = ~isPlaying
    /\ UNCHANGED lastAdd
    /\ Quiet
    /\ UNCHANGED << session, localStore, db, nextId, harness, uncaught, isCopied, view,
                    playlist, currentReelIndex, userId, isLoading,
                    selectedTags, checkUserPending, fetch, ops >>
    /\ Reconcile

\* sharePlaylist: copyToClipboard resolves (setIsCopied(true), success toast)
\* or is rejected (catch: error toast); its continuation reads no view state
sharePlaylist ==
    /\ Callable(ListRendered)
    /\ playlist.present
    /\ \E copied \in BOOLEAN :
          IF copied
          THEN /\ isCopied' = IF view = "mounted" THEN TRUE ELSE isCopied
               /\ Notify("success", "Playlist link copied to clipboard")
          ELSE /\ UNCHANGED isCopied
               /\ Notify("error", "Failed to copy link")
    /\ UNCHANGED lastAdd
    /\ UNCHANGED << session, localStore, db, nextId, harness, uncaught, view,
                    playlist, currentReelIndex, isPlaying, userId, isLoading,
                    selectedTags, checkUserPending, fetch, ops, player >>

\* the effect on [isCopied]: its 2 s timer fires and resets the mark
CopiedTimeout ==
    /\ view = "mounted" /\ isCopied
    /\ isCopied' = FALSE
    /\ UNCHANGED lastAdd
    /\ Quiet
    /\ UNCHANGED << session, localStore, db, nextId, harness, uncaught, view,
                    playlist, currentReelIndex, isPlaying, userId, isLoading,
                    selectedTags, checkUserPending, fetch, ops, player >>

(* ----------------------------- addReel ---------------------------------- *)
\* a handler awaiting the backend, with the values its closure captured (and,
\* as history, the playlist_tags relation at its start)
Op(kind, stage, url, reelId, tags) ==
    [kind |-> kind, stage |-> stage, pl |-> playlist, idx |-> currentReelIndex,
     url |-> url, reelId |-> reelId, tags |-> tags, rel |-> db.tags]

OpsOfKind(kind) == { i \in 1..Len(ops) : ops[i].kind = kind }

\* the URL input's onChange followed by the "+" button
\* (disabled={isLoading || !newReelUrl.trim()}) or by the Enter key
AddControl(url) == ListRendered /\ Trim(url) # ""

\* the new reel of addReel
NewReel(id, url) ==
    Reel(id, detectPlatform(url), extractVideoId(url, detectPlatform(url)), "added")

\* [...playlist.reels, newReel]
WithReel(pl, reel) == [pl EXCEPT !.reels = Append(pl.reels, reel)]

\* savePlaylistsToStorage(getPlaylistsFromStorage().map(p =>
\*   p.id === playlist.id ? updatedPlaylist : p))
SavedStore(updatedPlaylist) ==
    savePlaylistsToStorage(IF getPlaylistsFromStorage.present
                           THEN updatedPlaylist ELSE getPlaylistsFromStorage)

\* addReel returns early: no playlist, blank URL or unrecognized platform
AddReelReject ==
    \E url \in Urls :
        /\ Callable(AddControl(url))
        /\ \/ /\ ~playlist.present \/ Trim(url) = ""
              /\ NotifyBy("error", "Please enter a valid URL", Call("addReel", url, 0))
           \/ /\ playlist.present /\ Trim(url) # ""
              /\ detectPlatform(url) = "null"
              /\ NotifyBy("error", "Unsupported platform or invalid URL",
                          Call("addReel", url, 0))
        /\ UNCHANGED lastAdd
        /\ UNCHANGED << session, localStore, db, nextId, harness, uncaught, isCopied, view,
                        playlist, currentReelIndex, isPlaying, userId,
                        isLoading, selectedTags, checkUserPending, fetch, ops, player >>

\* addReel without its platform check
AddReelValidAnyPlatform(url) ==
    /\ playlist.present /\ Trim(url) # ""
    /\ nextId + Cardinality(OpsOfKind("add")) <= Len(SampleReels("row")) + MaxAdds

\* addReel passes its checks (and the run stays within MaxAdds)
AddReelValid(url) ==
    /\ playlist.present /\ Trim(url) # ""
    /\ detectPlatform(url) # "null"
    /\ nextId + Cardinality(OpsOfKind("add")) <= Len(SampleReels("row")) + MaxAdds

\* addReel without a userId: runs to its end without awaiting
AddReelLocal ==
    \E url \in Urls :
        /\ Callable(AddControl(url))
        /\ AddReelValid(url)
        /\ userId = NullUser
        /\ nextId' = nextId + 1
        /\ LET updatedPlaylist ==
                   [WithReel(playlist, NewReel(nextId, url)) EXCEPT !.updatedAt = Now]
           IN /\ playlist' = updatedPlaylist
              /\ localStore' = SavedStore(updatedPlaylist)
        /\ NotifyBy("success", "Reel added to playlist", Call("addReel", url, 0))
        /\ isLoading' = FALSE
        /\ lastAdd' = [id |-> nextId, pl |-> playlist, store |-> localStore]
        /\ UNCHANGED << session, db, harness, uncaught, isCopied, view, currentReelIndex, isPlaying,
                        userId, selectedTags, checkUserPending,
                        fetch, ops >>
        /\ Reconcile

\* addReel with a userId, up to its await of the insert into reels
AddReelStart ==
    \E url \in Urls :
        /\ Callable(AddControl(url))
        /\ AddReelValid(url)
        /\ userId # NullUser
        /\ Len(ops) < MaxInFlight
        /\ isLoading' = TRUE
        /\ ops' = Append(ops, Op("add", "insert", url, 0, {}))
        /\ lastAdd' = NoAdd
        /\ QuietBy(Call("addReel", url, 0))
        /\ UNCHANGED << session, localStore, db, nextId, harness, uncaught, isCopied, view,
                        playlist, currentReelIndex, isPlaying, userId, selectedTags,
                        checkUserPending, fetch >>
        /\ Reconcile

\* the insert succeeded: the continuation appends to the captured playlist
AddReelDone ==
    \E i \in OpsOfKind("add") :
        /\ ~EffectPending
        /\ db.exists
        /\ ops' = RemoveAt(ops, i)
        /\ nextId' = nextId + 1
        /\ db' = [db EXCEPT !.reels = Append(@, [NewReel(nextId, ops[i].url)
                                                   EXCEPT !.obj = "row"])]
        /\ Notify("success", "Reel added to playlist")
        /\ IF view = "mounted"
           THEN /\ playlist' = WithReel(ops[i].pl, NewReel(nextId, ops[i].url))
                        /\ isLoading' = FALSE
                /\ lastAdd' = [id |-> nextId, pl |-> ops[i].pl, store |-> localStore]
           ELSE /\ UNCHANGED << playlist, isLoading >>
                /\ lastAdd' = NoAdd
        /\ UNCHANGED << session, localStore, harness, uncaught, isCopied, view,
                        currentReelIndex, isPlaying, userId, selectedTags,
                        checkUserPending, fetch >>
        /\ Reconcile

\* the insert failed: catch reports, finally clears isLoading
AddReelFail ==
    \E i \in OpsOfKind("add") :
        /\ ~EffectPending
        /\ ops' = RemoveAt(ops, i)
        /\ Notify("error", "Failed to add reel")
        /\ isLoading' = IF view = "mounted" THEN FALSE ELSE isLoading
        /\ lastAdd' = NoAdd
        /\ UNCHANGED << session, localStore, db, nextId, harness, uncaught, isCopied, view,
                        playlist, currentReelIndex, isPlaying, userId, selectedTags, checkUserPending,
                        fetch >>
        /\ Reconcile


(* ---------------------------- removeReel -------------------------------- *)
\* the reel ids removeReel can be called with: the trash button of a rendered
\* reel card, or any id by a direct call
RemoveArgs ==
    IF harness THEN ReelIds(playlist.reels) \cup {0}
    ELSE IF ListRendered THEN ReelIds(playlist.reels) ELSE {}

\* if (currentReelIndex >= updatedReels.length)
\*   setCurrentReelIndex(Math.max(0, updatedReels.length - 1))
AdjustedIndex(idx, updatedReels, current) ==
    IF idx >= Len(updatedReels) THEN Max(0, Len(updatedReels) - 1) ELSE current

\* the history of the last add survives only its own removal
KeepLastAdd(reelId) ==
    lastAdd' = IF lastAdd.id # 0 /\ lastAdd.id = reelId THEN lastAdd ELSE NoAdd

\* removeReel without a userId: runs to its end without awaiting
RemoveReelLocal ==
    \E reelId \in RemoveArgs :
        /\ Callable(TRUE)
        /\ playlist.present
        /\ userId = NullUser
        /\ LET updatedReels == FilterOut(playlist.reels, reelId)
               updatedPlaylist ==
                   [playlist EXCEPT !.reels = updatedReels, !.updatedAt = Now]
           IN /\ currentReelIndex' =
                     AdjustedIndex(currentReelIndex, updatedReels, currentReelIndex)
              /\ playlist' = updatedPlaylist
              /\ localStore' = SavedStore(updatedPlaylist)
        /\ NotifyBy("success", "Reel removed from playlist", Call("removeReel", "", reelId))
        /\ isLoading' = FALSE
        /\ KeepLastAdd(reelId)
        /\ UNCHANGED << session, db, nextId, harness, uncaught, isCopied, view, isPlaying,
                        userId, selectedTags, checkUserPending, fetch, ops >>
        /\ Reconcile

\* removeReel with a userId, up to its await of the delete from reels
RemoveReelStart ==
    \E reelId \in RemoveArgs :
        /\ Callable(TRUE)
        /\ playlist.present
        /\ userId # NullUser
        /\ Len(ops) < MaxInFlight
        /\ isLoading' = TRUE
        /\ ops' = Append(ops, Op("remove", "delete", "", reelId, {}))
        /\ KeepLastAdd(reelId)
        /\ QuietBy(Call("removeReel", "", reelId))
        /\ UNCHANGED << session, localStore, db, nextId, harness, uncaught, isCopied, view,
                        playlist, currentReelIndex, isPlaying, userId,
                        selectedTags, checkUserPending, fetch >>
        /\ Reconcile

\* the delete succeeded: the continuation filters the captured playlist and
\* compares the captured index
RemoveReelDone ==
    \E i \in OpsOfKind("remove") :
        /\ ~EffectPending
        /\ ops' = RemoveAt(ops, i)
        /\ db' = [db EXCEPT !.reels = FilterOut(@, ops[i].reelId)]
        /\ Notify("success", "Reel removed from playlist")
        /\ IF view = "mounted"
           THEN LET updatedReels == FilterOut(ops[i].pl.reels, ops[i].reelId)
                IN /\ currentReelIndex' =
                          AdjustedIndex(ops[i].idx, updatedReels, currentReelIndex)
                   /\ playlist' = [ops[i].pl EXCEPT !.reels = updatedReels]
                   /\ isLoading' = FALSE
           ELSE UNCHANGED << currentReelIndex, playlist, isLoading >>
        /\ KeepLastAdd(ops[i].reelId)
        /\ UNCHANGED << session, localStore, nextId, harness, uncaught, isCopied, view,
                        isPlaying, userId, selectedTags,
                        checkUserPending, fetch >>
        /\ Reconcile

\* a removeReel that has filtered the view's playlist before the delete is
\* confirmed, and leaves it filtered when the delete fails
RemoveReelFailOptimistic ==
    \E i \in OpsOfKind("remove") :
        /\ ~EffectPending
        /\ ops' = RemoveAt(ops, i)
        /\ Notify("error", "Failed to remove reel")
        /\ isLoading' = IF view = "mounted" THEN FALSE ELSE isLoading
        /\ playlist' = IF view = "mounted"
                       THEN [ops[i].pl EXCEPT !.reels = FilterOut(@, ops[i].reelId)]
                       ELSE playlist
        /\ lastAdd' = NoAdd
        /\ UNCHANGED << session, localStore, db, nextId, harness, uncaught, isCopied, view,
                        currentReelIndex, isPlaying, userId, selectedTags,
                        checkUserPending, fetch >>
        /\ Reconcile

\* the delete failed: catch reports, finally clears isLoading
RemoveReelFail ==
    \E i \in OpsOfKind("remove") :
        /\ ~EffectPending
        /\ ops' = RemoveAt(ops, i)
        /\ Notify("error", "Failed to remove reel")
        /\ isLoading' = IF view = "mounted" THEN FALSE ELSE isLoading
        /\ lastAdd' = NoAdd
        /\ UNCHANGED << session, localStore, db, nextId, harness, uncaught, isCopied, view,
                        playlist, currentReelIndex, isPlaying, userId, selectedTags, checkUserPending,
                        fetch >>
        /\ Reconcile

(* ------------------------ updatePlaylistTags ---------------------------- *)
\* the "Manage Tags" button is rendered
TagControl == ViewRendered /\ userId # NullUser

\* the user opens the tag manager, picks tags
\* (onTagsChange={setSelectedTags}) and presses "Update Tags":
\* updatePlaylistTags up to its await of the delete from playlist_tags
UpdateTagsStart ==
    \E t \in SUBSET Tags :
        /\ Callable(TagControl)
        /\ playlist.present /\ userId # NullUser
        /\ Len(ops) < MaxInFlight
        /\ selectedTags' = t
        /\ isLoading' = TRUE
        /\ ops' = Append(ops, Op("tags", "delete", "", 0, t))
        /\ lastAdd' = NoAdd
        /\ Quiet
        /\ UNCHANGED << session, localStore, db, nextId, harness, uncaught, isCopied, view,
                        playlist, currentReelIndex, isPlaying, userId, checkUserPending, fetch >>
        /\ Reconcile

\* setPlaylist({...playlist, tags: selectedTags}), the toast and the finally
UpdateTagsFinish(op) ==
    /\ Notify("success", "Tags updated")
    /\ IF view = "mounted"
       THEN /\ playlist' = [op.pl EXCEPT !.tags = op.tags]
                    /\ isLoading' = FALSE
       ELSE UNCHANGED << playlist, isLoading >>

\* the delete of the playlist's tag relations succeeded
UpdateTagsDeleted ==
    \E i \in OpsOfKind("tags") :
        /\ ~EffectPending
        /\ ops[i].stage = "delete"
        /\ db' = [db EXCEPT !.tags = {}]
        /\ IF ops[i].tags # {}
           THEN /\ ops' = [ops EXCEPT ![i].stage = "insert"]
                /\ Quiet
                /\ UNCHANGED << playlist, isLoading >>
           ELSE /\ ops' = RemoveAt(ops, i)
                /\ UpdateTagsFinish(ops[i])
        /\ lastAdd' = NoAdd
        /\ UNCHANGED << session, localStore, nextId, harness, uncaught, isCopied, view,
                        currentReelIndex, isPlaying, userId,
                        selectedTags, checkUserPending, fetch >>
        /\ Reconcile

\* the insert of the new tag relations succeeded
UpdateTagsInserted ==
    \E i \in OpsOfKind("tags") :
        /\ ~EffectPending
        /\ ops[i].stage = "insert"
        /\ db.exists
        /\ db' = [db EXCEPT !.tags = @ \cup ops[i].tags]
        /\ ops' = RemoveAt(ops, i)
        /\ UpdateTagsFinish(ops[i])
        /\ lastAdd' = NoAdd
        /\ UNCHANGED << session, localStore, nextId, harness, uncaught, isCopied, view,
                        currentReelIndex, isPlaying, userId,
                        selectedTags, checkUserPending, fetch >>
        /\ Reconcile

\* the delete or the insert failed: catch reports, finally clears isLoading
UpdateTagsFail ==
    \E i \in OpsOfKind("tags") :
        /\ ~EffectPending
        /\ ops' = RemoveAt(ops, i)
        /\ Notify("error", "Failed to update tags")
        /\ isLoading' = IF view = "mounted" THEN FALSE ELSE isLoading
        /\ lastAdd' = NoAdd
        /\ UNCHANGED << session, localStore, db, nextId, harness, uncaught, isCopied, view,
                        playlist, currentReelIndex, isPlaying, userId, selectedTags, checkUserPending,
                        fetch >>
        /\ Reconcile

(* --------------------------- specification ------------------------------ *)
Next ==
    \/ Mount
    \/ CheckUserResolve
    \/ CheckUserFail
    \/ FetchReels
    \/ FetchTags
    \/ FetchFail
    \/ SelectReel
    \/ nextReel
    \/ prevReel
    \/ playPause
    \/ sharePlaylist
    \/ CopiedTimeout
    \/ AddReelReject
    \/ AddReelLocal
    \/ AddReelStart
    \/ AddReelDone
    \/ AddReelFail
    \/ RemoveReelLocal
    \/ RemoveReelStart
    \/ RemoveReelDone
    \/ RemoveReelFail
    \/ UpdateTagsStart
    \/ UpdateTagsDeleted
    \/ UpdateTagsInserted
    \/ UpdateTagsFail
    \/ PlayerEffect
    \/ handleIframeError

\* the view as a user drives it, through its rendered controls
Spec == Init /\ [][Next]_vars

\* the view with its handlers also called directly
SpecCall == InitCall /\ [][Next]_vars


(* ------------------------------ claims ---------------------------------- *)
\* C1: whenever the loaded playlist has at least one reel, currentReelIndex is
\* within 0 .. reels.length-1 (after any sequence of load, fetch, select,
\* nextReel, prevReel, addReel and removeReel).
C1_IndexInBounds ==
    (view = "mounted" /\ playlist.present /\ Len(playlist.reels) >= 1)
        => (0 <= currentReelIndex /\ currentReelIndex <= Len(playlist.reels) - 1)

\* C2: with N >= 1 reels and the index i within 0 .. N-1, nextReel sets the
\* index to (i+1) mod N and prevReel sets it to (i-1+N) mod N; on an empty
\* playlist both leave the index and the play intent as they are.
C2_NextPrevWrap ==
    [][ LET N == Len(playlist.reels)
            i == currentReelIndex
        IN /\ (called'.handler = "nextReel" /\ N >= 1 /\ i \in 0..(N - 1))
                 => currentReelIndex' = (i + 1) % N
           /\ (called'.handler = "prevReel" /\ N >= 1 /\ i \in 0..(N - 1))
                 => currentReelIndex' = (i - 1 + N) % N
           /\ (called'.handler \in {"nextReel", "prevReel"} /\ N = 0)
                 => (currentReelIndex' = i /\ isPlaying' = isPlaying) ]_vars

\* nextReel has wrapped from the last reel to the first
C2_Witness ==
    /\ called.handler = "nextReel" /\ currentReelIndex = 0 /\ Len(playlist.reels) >= 2

\* nextReel or prevReel was called before the playlist was loaded
C2_WitnessNotLoaded ==
    /\ called.handler \in {"nextReel", "prevReel"} /\ ~playlist.present

\* nextReel or prevReel was called on an empty playlist
C2_WitnessEmpty ==
    /\ called.handler \in {"nextReel", "prevReel"} /\ playlist.present
    /\ Len(playlist.reels) = 0

\* C3: in remote mode a failed backend call of addReel, removeReel or
\* updatePlaylistTags leaves the in-memory playlist and currentReelIndex as they
\* were, reports an error and is not retried (the call leaves the set of calls
\* in flight and the backend is not touched again); a handler changes nothing in
\* the view's playlist when it starts, and with a userId the playlist changes
\* only in a step that reports success or belongs to the fetch.
C3_FailureLeavesState ==
    [][ /\ (toast' \in { << "error", "Failed to add reel" >>,
                        << "error", "Failed to remove reel" >>,
                        << "error", "Failed to update tags" >> })
              => /\ playlist' = playlist
                 /\ currentReelIndex' = currentReelIndex
                 /\ db' = db
                 /\ \E i \in 1..Len(ops) : ops' = RemoveAt(ops, i)
        /\ (Len(ops') > Len(ops))
              => (playlist' = playlist /\ currentReelIndex' = currentReelIndex /\ db' = db)
        /\ (userId # NullUser /\ view' = "mounted" /\ playlist' # playlist)
              => (toast'[1] = "success" \/ fetch' # fetch) ]_vars

\* the delete of removeReel has failed in a mounted view with a userId
C3_Witness ==
    /\ toast = << "error", "Failed to remove reel" >>
    /\ view = "mounted" /\ userId # NullUser
    /\ playlist.present /\ Len(playlist.reels) >= 1

\* C4: with a session present no step of the view reads the playlist from the
\* local store or writes it: the local store never changes and the view's
\* playlist never takes reels read from the local store.
C4_OneBackend ==
    [][ session =>
          /\ localStore' = localStore
          /\ (playlist' # playlist
                => \A i \in 1..Len(playlist'.reels) : playlist'.reels[i].obj # "local") ]_vars

\* C5: when updatePlaylistTags reports a failure, the persisted playlist_tags
\* relation is what it was when the operation started.
C5_TagsFailureKeepsRelation ==
    [][ toast' = << "error", "Failed to update tags" >>
          => \E i \in OpsOfKind("tags") : ops' = RemoveAt(ops, i) /\ db'.tags = ops[i].rel ]_vars

\* C6: after an addReel or removeReel that has changed the playlist's reels,
\* isPlaying is false.
C6_MutationPauses ==
    [][ (/\ toast' \in { << "success", "Reel added to playlist" >>,
                        << "success", "Reel removed from playlist" >> }
         /\ playlist'.reels # playlist.reels)
          => isPlaying' = FALSE ]_vars

\* C7: addReel called with an empty or whitespace-only URL, or with a URL for
\* which detectPlatform returns null, leaves the playlist and the persisted
\* stores unchanged, starts no persistence call and reports an error.
C7_RejectedAdd ==
    [][ (/\ called'.handler = "addReel"
         /\ (Trim(called'.url) = "" \/ detectPlatform(called'.url) = "null"))
          => /\ playlist' = playlist
             /\ localStore' = localStore
             /\ db' = db
             /\ ops' = ops
             /\ toast'[1] = "error" ]_vars

\* addReel was called with a whitespace-only URL
C7_Witness ==
    /\ called.handler = "addReel" /\ called.url = "   "
    /\ toast = << "error", "Please enter a valid URL" >>

\* addReel was called with a URL of no known platform
C7_WitnessPlatform ==
    /\ called.handler = "addReel" /\ called.url = "https://example.com/clip"
    /\ toast = << "error", "Unsupported platform or invalid URL" >>

\* C8: a successful addReel followed by removeReel of the new reel's id (no
\* other change of the playlist in between) leaves the reel sequence and the
\* tags as they were when addReel was called; a removal in local mode leaves the
\* stored playlist as it was before the add, except for updatedAt.
C8_AddRemoveRoundTrip ==
    [][ /\ (/\ called'.handler = "removeReel" /\ toast'[1] = "success"
            /\ lastAdd.id # 0 /\ called'.reelId = lastAdd.id)
              => /\ playlist'.reels = lastAdd.pl.reels
                 /\ playlist'.tags = lastAdd.pl.tags
                 /\ [localStore' EXCEPT !.updatedAt = Stored]
                       = [lastAdd.store EXCEPT !.updatedAt = Stored]
        /\ \A i \in OpsOfKind("remove") :
              (/\ ops' = RemoveAt(ops, i)
               /\ toast' = << "success", "Reel removed from playlist" >>
               /\ view = "mounted"
               /\ lastAdd.id # 0 /\ ops[i].reelId = lastAdd.id)
                 => /\ playlist'.reels = lastAdd.pl.reels
                    /\ playlist'.tags = lastAdd.pl.tags ]_vars

\* the reel of the last add has just been removed from a playlist that had
\* reels before the add
C8_Witness ==
    /\ toast = << "success", "Reel removed from playlist" >>
    /\ view = "mounted"
    /\ lastAdd.id # 0 /\ Len(lastAdd.pl.reels) >= 1
    /\ playlist.reels = lastAdd.pl.reels

\* the same round trip with a userId (insert and delete confirmed)
C8_WitnessRemote ==
    /\ C8_Witness /\ userId # NullUser /\ called = NoCall

\* the index after a removeReel called with reel id r when the playlist was pl
\* and the index i
RemovalClamps(pl, i, r) ==
    (Len(pl.reels) > 1 /\ i \in 0..(Len(pl.reels) - 1))
      => /\ (pl.reels[i + 1].id = r)
              => currentReelIndex' = (IF i <= Len(pl.reels) - 2
                                      THEN i ELSE Len(pl.reels) - 2)
         /\ (\E j \in 1..i : pl.reels[j].id = r)
              => currentReelIndex' \in 0..(Len(playlist'.reels) - 1)

\* C9: removeReel, called for the reel at the current index i of a playlist of
\* N > 1 reels, sets the index to min(i, N-2); called for a reel before the
\* current index, it leaves the index within the bounds of the new sequence.
C9_RemoveClamps ==
    [][ /\ (called'.handler = "removeReel" /\ toast'[1] = "success")
              => RemovalClamps(playlist, currentReelIndex, called'.reelId)
        /\ \A k \in OpsOfKind("remove") :
              (/\ ops' = RemoveAt(ops, k)
               /\ toast' = << "success", "Reel removed from playlist" >>
               /\ view = "mounted")
                 => RemovalClamps(ops[k].pl, ops[k].idx, ops[k].reelId) ]_vars

\* C10: while the current reel of a mounted player is a twitter reel, the
\* player renders the fallback card, also before the effect on [reel] has run.
C10_TwitterFallback ==
    (player.mounted /\ CurrentReel(playlist, currentReelIndex) # <<>>
        /\ CurrentReel(playlist, currentReelIndex)[1].platform = "twitter")
      => Rendered(player) = "fallback"

\* C11: when the effect on [reel] has run for a new reel, the player's error,
\* fallback flag and embed target are those a fresh player would compute for
\* that reel and the play intent: nothing of the previous reel is carried over.
C11_RecomputeFromScratch ==
    [][ (player.mounted /\ player'.mounted /\ player'.dep # player.dep)
          => LET scratch == generateEmbedUrl(FreshPlayer(TRUE), player'.dep[1], isPlaying)
             IN /\ player'.error = scratch.error
                /\ player'.showFallback = scratch.showFallback
                /\ player'.embedUrl = scratch.embedUrl ]_vars

\* C12: while a YouTube reel with a video id is the player's reel and no
\* effect is pending, the autoplay parameter of the embed target equals the
\* play intent, also after playPause has toggled it.
C12_AutoplayFollowsIntent ==
    (/\ player.mounted /\ ~EffectPending
     /\ player.dep[1].platform = "youtube" /\ player.dep[1].videoId # 0)
      => player.embedUrl
           = << "youtube", player.dep[1].videoId, IF isPlaying THEN 1 ELSE 0 >>

\* C13: no asynchronous operation of the view ends in an uncaught failure, and
\* a failed session check is reported: the step in which checkUser ends without
\* a user although a session exists notifies an error.
C13_FailuresCaught ==
    [][ /\ ~uncaught'
        /\ (/\ checkUserPending /\ ~checkUserPending'
            /\ session /\ view = "mounted" /\ userId' = NullUser)
              => toast'[1] = "error" ]_vars

\* C14: while a mutation is in flight in a mounted view, isLoading is true (so
\* that no control can start another one).
C14_LoadingWhileInFlight ==
    (view = "mounted" /\ ops # <<>>) => isLoading

\* the reel displayed before a removeReel of reel id r is displayed after it
KeepsDisplayed(r) ==
    LET before == CurrentReel(playlist, currentReelIndex)
        after == CurrentReel(playlist', currentReelIndex')
    IN (before # <<>> /\ before[1].id # r)
         => (after # <<>> /\ after[1].id = before[1].id)

\* C15: a successful removeReel of a reel other than the displayed one leaves
\* the displayed reel (the reel at playlist.reels[currentReelIndex]) the same,
\* wherever the removed reel stood relative to the current index.
C15_RemoveKeepsDisplayed ==
    [][ /\ (called'.handler = "removeReel" /\ toast'[1] = "success")
              => KeepsDisplayed(called'.reelId)
        /\ \A k \in OpsOfKind("remove") :
              (/\ ops' = RemoveAt(ops, k)
               /\ toast' = << "success", "Reel removed from playlist" >>
               /\ view = "mounted")
                 => KeepsDisplayed(ops[k].reelId) ]_vars

====
